---- MODULE Spec2Model ----
(***************************************************************************)
(* Model of src/streamdoku.py: the Sudoku generator / validator and the    *)
(* session state machine that the script drives on every run.  The last    *)
(* sections model src/coop.py (the collaboration tool: subtasks, tasks,    *)
(* project access, login) and src/app.py (the Madang DB app).              *)
(*                                                                         *)
(* Grids are the script's lists of lists: grid[r][c] with r, c in 0..8.    *)
(* Python lists are modelled as 1-indexed sequences, so the element the    *)
(* script calls xs[i] is xs[i+1] here.  The difficulty keys of keep_map    *)
(* are written "Easy", "Medium", "Hard" (the script's keys are the Korean  *)
(* words for these).                                                       *)
(***************************************************************************)
EXTENDS Integers, Sequences, FiniteSets

(***************************************************************************)
(* Bounds of the model (not program constants).                            *)
(***************************************************************************)
\* how many of the 6 orders of three items random.shuffle may produce for a
\* band order / an in-band order when a solution is generated
PermPick == 3
\* how many digit relabelings random.shuffle(nums) may produce
NumsPick == 2
\* how many orders of the 81 cells random.shuffle(cells) may produce
CellPick == 2
\* how many outcomes each shuffle may have when a game is played on
GamePick == 3
\* how many cells (the first ones, row by row) the player types in
EditCells == 1
\* how many entries of its list random.choice may pick in give_hint
HintPick == 1

(***************************************************************************)
(* Program constants.                                                      *)
(***************************************************************************)
side == 9
base == 3
HINT_LIMIT == 3

Idx == 0..(side - 1)
Digits == 1..side
Min(a, b) == IF a < b THEN a ELSE b

(***************************************************************************)
(* random.shuffle(x): x is rearranged by some permutation p of its         *)
(* positions.  The permutation is the random input.                        *)
(***************************************************************************)
Shuffle(x, p) == [i \in 1..Len(x) |-> x[p[i]]]

\* the six orders of three items
Perm3 == << <<1, 2, 3>>, <<2, 3, 1>>, <<2, 1, 3>>,
            <<3, 1, 2>>, <<1, 3, 2>>, <<3, 2, 1>> >>

\* a permutation of 1..n of the form i |-> a*(i-1)+b mod n, a coprime to n
Affine(n, a, b) == [i \in 1..n |-> ((a * (i - 1) + b) % n) + 1]

(***************************************************************************)
(* base_solution                                                           *)
(***************************************************************************)
\* the mutant: the shift of a row is its number, not its band
base_solution_rowshift ==
    [i \in Idx |-> [j \in Idx |-> ((i * base + i + j) % side) + 1]]

base_solution ==
    [i \in Idx |-> [j \in Idx |-> ((i * base + (i \div base) + j) % side) + 1]]

(***************************************************************************)
(* shuffle_in_groups(idxs): cut into three groups of three, shuffle the    *)
(* order of the groups (gp), shuffle each group in place (ip[k] for the    *)
(* k-th group in the new order), then flatten.                             *)
(***************************************************************************)
shuffle_in_groups(idxs, gp, ip) ==
    LET groups   == [k \in 1..3 |-> SubSeq(idxs, 3 * (k - 1) + 1, 3 * k)]
        shuffled == Shuffle(groups, gp)
        inner    == [k \in 1..3 |-> Shuffle(shuffled[k], ip[k])]
    IN  inner[1] \o inner[2] \o inner[3]

\* the mutant: rows/columns shuffled across the whole grid, bands ignored
shuffled_solution_noband(rnd) ==
    LET rows == Shuffle([k \in 1..9 |-> k - 1], Affine(9, 2, rnd.rg))
        cols == Shuffle([k \in 1..9 |-> k - 1], Affine(9, 2, rnd.cg))
        nums == Shuffle([k \in 1..9 |-> k], rnd.nums)
        b    == base_solution
    IN  [r \in Idx |-> [c \in Idx |-> nums[b[rows[r + 1]][cols[c + 1]]]]]

(***************************************************************************)
(* shuffled_solution.  rnd holds the outcomes of the seven + one shuffles: *)
(* rg, r1, r2, r3 (rows), cg, c1, c2, c3 (columns) index Perm3, nums is a  *)
(* permutation of 1..9.                                                    *)
(***************************************************************************)
shuffled_solution(rnd) ==
    LET rows == shuffle_in_groups([k \in 1..9 |-> k - 1], Perm3[rnd.rg],
                                  <<Perm3[rnd.r1], Perm3[rnd.r2], Perm3[rnd.r3]>>)
        cols == shuffle_in_groups([k \in 1..9 |-> k - 1], Perm3[rnd.cg],
                                  <<Perm3[rnd.c1], Perm3[rnd.c2], Perm3[rnd.c3]>>)
        nums == Shuffle([k \in 1..9 |-> k], rnd.nums)
        b    == base_solution
    IN  [r \in Idx |-> [c \in Idx |-> nums[b[rows[r + 1]][cols[c + 1]]]]]

(***************************************************************************)
(* make_puzzle(solution, diff); cp is the outcome of random.shuffle(cells) *)
(***************************************************************************)
keep_map == [Easy |-> 45, Medium |-> 35, Hard |-> 28]

\* the mutant: an unknown key gets the first entry of the table
keep_of_first(diff) == IF diff \in DOMAIN keep_map THEN keep_map[diff] ELSE 45

keep_of(diff) == IF diff \in DOMAIN keep_map THEN keep_map[diff] ELSE 35

\* the mutant: the cells to keep are blanked
make_puzzle_keepblank(sol, diff, cp) ==
    LET keep   == keep_of(diff)
        cells  == Shuffle([k \in 1..81 |-> <<(k - 1) \div 9, (k - 1) % 9>>], cp)
    IN  [r \in Idx |-> [c \in Idx |->
            IF \E k \in 1..keep : cells[k] = <<r, c>> THEN 0 ELSE sol[r][c]]]

\* sol is the script's parameter solution
make_puzzle(sol, diff, cp) ==
    LET keep   == keep_of(diff)
        cells  == Shuffle([k \in 1..81 |-> <<(k - 1) \div 9, (k - 1) % 9>>], cp)
        blanks == 81 - keep
    IN  [r \in Idx |-> [c \in Idx |->
            IF \E k \in 1..blanks : cells[k] = <<r, c>> THEN 0 ELSE sol[r][c]]]

(***************************************************************************)
(* check_complete(grid)                                                    *)
(***************************************************************************)
target == 1..9

check_complete_nobox(grid) ==
    /\ \A r \in Idx : ~(\E c \in Idx : grid[r][c] = 0)
                      /\ {grid[r][c] : c \in Idx} = target
    /\ \A c \in Idx : {grid[r][c] : r \in Idx} = target

check_complete(grid) ==
    /\ \A r \in Idx : ~(\E c \in Idx : grid[r][c] = 0)
                      /\ {grid[r][c] : c \in Idx} = target
    /\ \A c \in Idx : {grid[r][c] : r \in Idx} = target
    /\ \A br \in {0, 3, 6} : \A bc \in {0, 3, 6} :
          {grid[r][c] : r \in br..(br + 2), c \in bc..(bc + 2)} = target

(***************************************************************************)
(* Texts are sequences of characters.  Besides ASCII characters the model  *)
(* has "sup2" (SUPERSCRIPT TWO: str.isdigit is true, int() raises          *)
(* ValueError) and "ar3" (ARABIC-INDIC DIGIT THREE: isdigit, int() = 3).   *)
(***************************************************************************)
DigitChar == <<"1", "2", "3", "4", "5", "6", "7", "8", "9">>

\* str(n) for n in 0..9
str(n) == IF n = 0 THEN <<"0">> ELSE <<DigitChar[n]>>

RECURSIVE lstrip(_)
lstrip(s) == IF Len(s) > 0 /\ Head(s) = " " THEN lstrip(Tail(s)) ELSE s

RECURSIVE rstrip(_)
rstrip(s) == IF Len(s) > 0 /\ s[Len(s)] = " "
             THEN rstrip(SubSeq(s, 1, Len(s) - 1)) ELSE s

strip(s) == rstrip(lstrip(s))

isdigit(s) ==
    /\ Len(s) > 0
    /\ \A i \in 1..Len(s) :
          s[i] \in {DigitChar[d] : d \in 1..9} \cup {"0", "sup2", "ar3"}

\* int(s) of a one-character string for which isdigit holds:
\* [ok |-> FALSE] stands for ValueError
int(s) ==
    IF \E d \in 1..9 : s = <<DigitChar[d]>>
    THEN [ok |-> TRUE, v |-> CHOOSE d \in 1..9 : s = <<DigitChar[d]>>]
    ELSE IF s = <<"0">> THEN [ok |-> TRUE, v |-> 0]
    ELSE IF s = <<"ar3">> THEN [ok |-> TRUE, v |-> 3]
    ELSE [ok |-> FALSE, v |-> 0]

\* lines 144-146: the value stored for the text txt of an editable cell
cell_value(txt) ==
    LET s0 == strip(txt)
        s  == SubSeq(s0, 1, Min(1, Len(s0)))
    IN  IF isdigit(s) /\ s # <<"0">> THEN int(s) ELSE [ok |-> TRUE, v |-> 0]

(***************************************************************************)
(* The keyed text_input widget of a cell.  A widget that was rendered      *)
(* holds the text the front end shows (txt) and the value argument it was  *)
(* created with (val).  When the script passes another value argument than *)
(* the one the widget was created with, the framework either keeps the     *)
(* widget and its text (identity by key: keyed) or replaces it by a new    *)
(* widget showing the new value (identity by arguments), depending on its  *)
(* version.  The widget after the call is returned; its txt is the call's  *)
(* result.                                                                 *)
(***************************************************************************)
NoWidget == [made |-> FALSE, txt |-> <<>>, val |-> <<>>]

text_input(w, v, keyedId) ==
    IF ~w.made THEN [made |-> TRUE, txt |-> v, val |-> v]
    ELSE IF w.val = v THEN w
    ELSE IF keyedId THEN [made |-> TRUE, txt |-> w.txt, val |-> v]
    ELSE [made |-> TRUE, txt |-> v, val |-> v]

\* line 137
value_arg(puzz, user, r, c) ==
    IF puzz[r][c] # 0 THEN str(puzz[r][c])
    ELSE IF user[r][c] # 0 THEN str(user[r][c]) ELSE <<>>

(***************************************************************************)
(* give_hint: pick is the outcome of random.choice (an index into the      *)
(* list it is given, taken modulo the list's length).  The result is the   *)
(* pair of session values the function may change.                         *)
(***************************************************************************)
AllCells == [k \in 1..81 |-> <<(k - 1) \div 9, (k - 1) % 9>>]

hint_blanks(puzz, user) ==
    LET Test(x) == puzz[x[1]][x[2]] = 0 /\ user[x[1]][x[2]] = 0
    IN  SelectSeq(AllCells, Test)

hint_wrongs(sol, puzz, user) ==
    LET Test(x) == /\ puzz[x[1]][x[2]] = 0
                   /\ user[x[1]][x[2]] # 0
                   /\ user[x[1]][x[2]] # sol[x[1]][x[2]]
    IN  SelectSeq(AllCells, Test)

SetCell(grid, x, v) == [grid EXCEPT ![x[1]][x[2]] = v]

\* mutants of give_hint: no budget test; no increment; wrong cells first;
\* a hint spent when there is nothing to reveal; the cell erased
give_hint_nolimit(sol, puzz, user, used, pick) ==
    LET blanks == hint_blanks(puzz, user)
        wrongs == hint_wrongs(sol, puzz, user)
    IN  IF Len(blanks) > 0
        THEN LET x == blanks[(pick % Len(blanks)) + 1]
             IN  [user_grid |-> SetCell(user, x, sol[x[1]][x[2]]),
                  hint_used |-> used + 1]
        ELSE IF Len(wrongs) > 0
        THEN LET x == wrongs[(pick % Len(wrongs)) + 1]
             IN  [user_grid |-> SetCell(user, x, sol[x[1]][x[2]]),
                  hint_used |-> used + 1]
        ELSE [user_grid |-> user, hint_used |-> used]

give_hint_noinc(sol, puzz, user, used, pick) ==
    LET blanks == hint_blanks(puzz, user)
        wrongs == hint_wrongs(sol, puzz, user)
    IN  IF used >= HINT_LIMIT THEN [user_grid |-> user, hint_used |-> used]
        ELSE IF Len(blanks) > 0
        THEN LET x == blanks[(pick % Len(blanks)) + 1]
             IN  [user_grid |-> SetCell(user, x, sol[x[1]][x[2]]),
                  hint_used |-> used]
        ELSE IF Len(wrongs) > 0
        THEN LET x == wrongs[(pick % Len(wrongs)) + 1]
             IN  [user_grid |-> SetCell(user, x, sol[x[1]][x[2]]),
                  hint_used |-> used + 1]
        ELSE [user_grid |-> user, hint_used |-> used]

give_hint_wrongfirst(sol, puzz, user, used, pick) ==
    LET blanks == hint_blanks(puzz, user)
        wrongs == hint_wrongs(sol, puzz, user)
    IN  IF used >= HINT_LIMIT THEN [user_grid |-> user, hint_used |-> used]
        ELSE IF Len(wrongs) > 0
        THEN LET x == wrongs[(pick % Len(wrongs)) + 1]
             IN  [user_grid |-> SetCell(user, x, sol[x[1]][x[2]]),
                  hint_used |-> used + 1]
        ELSE IF Len(blanks) > 0
        THEN LET x == blanks[(pick % Len(blanks)) + 1]
             IN  [user_grid |-> SetCell(user, x, sol[x[1]][x[2]]),
                  hint_used |-> used + 1]
        ELSE [user_grid |-> user, hint_used |-> used]

give_hint_spend(sol, puzz, user, used, pick) ==
    LET blanks == hint_blanks(puzz, user)
        wrongs == hint_wrongs(sol, puzz, user)
    IN  IF used >= HINT_LIMIT THEN [user_grid |-> user, hint_used |-> used]
        ELSE IF Len(blanks) > 0
        THEN LET x == blanks[(pick % Len(blanks)) + 1]
             IN  [user_grid |-> SetCell(user, x, sol[x[1]][x[2]]),
                  hint_used |-> used + 1]
        ELSE IF Len(wrongs) > 0
        THEN LET x == wrongs[(pick % Len(wrongs)) + 1]
             IN  [user_grid |-> SetCell(user, x, sol[x[1]][x[2]]),
                  hint_used |-> used + 1]
        ELSE [user_grid |-> user, hint_used |-> used + 1]

give_hint_erase(sol, puzz, user, used, pick) ==
    LET blanks == hint_blanks(puzz, user)
        wrongs == hint_wrongs(sol, puzz, user)
    IN  IF used >= HINT_LIMIT THEN [user_grid |-> user, hint_used |-> used]
        ELSE IF Len(blanks) > 0
        THEN LET x == blanks[(pick % Len(blanks)) + 1]
             IN  [user_grid |-> SetCell(user, x, sol[x[1]][x[2]]),
                  hint_used |-> used + 1]
        ELSE IF Len(wrongs) > 0
        THEN LET x == wrongs[(pick % Len(wrongs)) + 1]
             IN  [user_grid |-> SetCell(user, x, puzz[x[1]][x[2]]),
                  hint_used |-> used + 1]
        ELSE [user_grid |-> user, hint_used |-> used]

give_hint(sol, puzz, user, used, pick) ==
    LET blanks == hint_blanks(puzz, user)
        wrongs == hint_wrongs(sol, puzz, user)
    IN  IF used >= HINT_LIMIT THEN [user_grid |-> user, hint_used |-> used]
        ELSE IF Len(blanks) > 0
        THEN LET x == blanks[(pick % Len(blanks)) + 1]
             IN  [user_grid |-> SetCell(user, x, sol[x[1]][x[2]]),
                  hint_used |-> used + 1]
        ELSE IF Len(wrongs) > 0
        THEN LET x == wrongs[(pick % Len(wrongs)) + 1]
             IN  [user_grid |-> SetCell(user, x, sol[x[1]][x[2]]),
                  hint_used |-> used + 1]
        ELSE [user_grid |-> user, hint_used |-> used]

(***************************************************************************)
(* The outcomes of the random draws, sampled.                              *)
(***************************************************************************)
UnitSeq == <<1, 2, 4, 5, 7, 8>>

\* the k-th sampled outcome of the four shuffles of shuffle_in_groups
GroupChoice(k) ==
    LET n == (k * 223) % 1296
    IN  [g |-> (n % 6) + 1, a |-> ((n \div 6) % 6) + 1,
         b |-> ((n \div 36) % 6) + 1, c |-> ((n \div 216) % 6) + 1]

\* the k-th sampled outcome of random.shuffle(nums) / random.shuffle(cells)
NumsChoice(k) == Affine(9, UnitSeq[(k % 6) + 1], (k * 4) % 9)
CellChoice(k) == Affine(81, UnitSeq[(k % 6) + 1], (k * 37) % 81)

Rnd(kr, kc, kn) ==
    LET R == GroupChoice(kr)
        C == GroupChoice(kc)
    IN  [rg |-> R.g, r1 |-> R.a, r2 |-> R.b, r3 |-> R.c,
         cg |-> C.g, c1 |-> C.a, c2 |-> C.b, c3 |-> C.c,
         nums |-> NumsChoice(kn)]

Difficulties == {"Easy", "Medium", "Hard"}

\* the outcomes of line 73 followed by line 74 (or of lines 59 and 61), for
\* the sampled outcomes rnds of the shuffles of shuffled_solution and cps of
\* the shuffle of make_puzzle
Outcomes(diffs, rnds, cps) ==
    {[difficulty |-> d,
      solution |-> shuffled_solution(rnd),
      puzzle |-> make_puzzle(shuffled_solution(rnd), d, cp)] :
        d \in diffs, rnd \in rnds, cp \in cps}

GenRnd == {Rnd(kr, kc, kn) : kr \in 0..(PermPick - 1), kc \in 0..(PermPick - 1),
                             kn \in 0..(NumsPick - 1)}
GenCp == {CellChoice(k) : k \in 0..(CellPick - 1)}
GenOutcomes == Outcomes(Difficulties, GenRnd, GenCp)

\* the games that are played: the k-th has the difficulty DiffSeq[k mod 3],
\* a solution of its own, and the cells blanked from cell 45 downwards
DiffSeq == <<"Medium", "Easy", "Hard">>

GameOutcomes ==
    UNION {Outcomes({DiffSeq[(k % 3) + 1]}, {Rnd(k, k + 1, k)}, {Affine(81, 80, 45)}) :
             k \in 0..(GamePick - 1)}

(***************************************************************************)
(* The state of the other two programs of the repository, each a script    *)
(* of its own: src/coop.py (the collaboration tool) and src/app.py (the    *)
(* Madang DB app).  A specification of one program keeps the variables of  *)
(* the others at the values below.                                         *)
(***************************************************************************)
VARIABLES
    \* src/coop.py: one row of the table tasks, and the page that shows it
    task,         \* the row: status, progress, description (NoTask: no row)
    other_tasks,  \* the table tasks holds other rows
    checkbox,     \* the view-mode checkboxes of the row, as the front end
                  \* holds them: the status in their keys, and per subtask
                  \* the state and the value argument they were made with
    edit_mode,    \* st.session_state[edit_key]
    rerun,        \* st.rerun() was called: a run follows with no user event
    count,        \* st.session_state[count_key], the rows of the add form
    toggled,      \* history: the checkbox the user clicked to start the
                  \* run just made (0: none)
    \* src/coop.py: a subtask list on its way through serialize and parse
    round,
    \* src/coop.py: the table user_projects
    user_projects,
    granted,      \* history: per user, what an administrator saved last
    \* src/coop.py: per session, the login state in st.session_state
    logged_in, role, current_tab,
    page,         \* per session: what its last run rendered
    \* src/app.py
    cache,        \* the connection st.cache_resource holds for get_conn
    readonly,     \* per session: st.session_state.get("_readonly", False)
    conn,         \* per session: the connection its last run got
    orders,       \* per database file: the orderids of the rows of Orders
    mpc,          \* per session: "idle", or "insert" between lines 252, 255
    nid,          \* per session: the nid read at line 252
    shown,        \* per session: the orderid in the message of line 260
                  \* that its last run showed (0: no message)
    controls,     \* per session: the write controls as last rendered
    inserted      \* history, per session: the INSERT of the last run of
                  \* the add-order handler succeeded

task_vars == <<task, other_tasks, checkbox, edit_mode, rerun, count, toggled>>
access_vars == <<user_projects, granted>>
login_vars == <<logged_in, role, current_tab, page>>
coop_vars == <<task_vars, round, access_vars, login_vars>>
madang_vars == <<cache, readonly, conn, orders, mpc, nid, shown, controls, inserted>>

\* how many browser sessions use an app at a time
NumSessions == 2
Sessions == 1..NumSessions

\* how many users and projects the collaboration tool has
NumUsers == 2
NumProjects == 3
Users == 1..NumUsers
Projects == 1..NumProjects

NoTask == [status |-> "none", progress |-> 0, description |-> <<>>]
NoBoxes == [status |-> "none", boxes |-> <<>>]
NoRound == [pc |-> "none", subtasks |-> <<>>, text |-> <<>>, out |-> <<>>]

TaskIdle ==
    /\ task = NoTask
    /\ other_tasks = FALSE
    /\ checkbox = NoBoxes
    /\ edit_mode = FALSE
    /\ rerun = FALSE
    /\ count = 1
    /\ toggled = 0

RoundIdle == round = NoRound

AccessIdle ==
    /\ user_projects = {}
    /\ granted = [u \in Users |-> [saved |-> FALSE, projects |-> {}]]

\* lines 751-754 of src/coop.py
LoginIdle ==
    /\ logged_in = [s \in Sessions |-> FALSE]
    /\ role = [s \in Sessions |-> "None"]
    /\ current_tab = [s \in Sessions |-> "dashboard"]
    /\ page = [s \in Sessions |-> "none"]

MadangIdle ==
    /\ cache = "none"
    /\ readonly = [s \in Sessions |-> FALSE]
    /\ conn = [s \in Sessions |-> "none"]
    /\ orders = [db \in {"main", "temp"} |-> <<>>]
    /\ mpc = [s \in Sessions |-> "idle"]
    /\ nid = [s \in Sessions |-> 0]
    /\ shown = [s \in Sessions |-> 0]
    /\ controls = [s \in Sessions |-> [add |-> FALSE, reinit |-> FALSE]]
    /\ inserted = [s \in Sessions |-> FALSE]

CoopIdle == TaskIdle /\ RoundIdle /\ AccessIdle /\ LoginIdle

(***************************************************************************)
(* The session.  st.session_state holds solution, puzzle, user_grid,       *)
(* difficulty and hint_used; the front end holds one text widget per cell. *)
(* Every user event starts one run of the script: the controls (lines      *)
(* 58-123), then the board and the check (lines 125-156).                  *)
(***************************************************************************)
VARIABLES
    solution, puzzle, user_grid, difficulty, hint_used,
    widget,   \* widget[r][c]: the text_input with key cell_r_c
    keyed,    \* the framework identifies a keyed widget by its key alone
    pc,       \* "idle": waiting for an event; "board": a run is at line 125
    pressed,  \* what started the run that is under way ("none" when idle)
    msg,      \* what the last run showed below the board
    before,   \* history: user_grid and hint_used when the run under way started
    hint_changes, \* history: the calls of give_hint in this game that changed
                  \* user_grid
    was_clear     \* history: a check of this game has shown "Clear!"

sudoku_vars == <<solution, puzzle, user_grid, difficulty, hint_used,
                 widget, keyed, pc, pressed, msg, before, hint_changes,
                 was_clear>>

vars == <<sudoku_vars, coop_vars, madang_vars>>

NoRun == [user_grid |-> <<>>, hint_used |-> 0]

copy(grid) == [r \in Idx |-> [c \in Idx |-> grid[r][c]]]

\* lines 58-67 of the first run of a session; g is the outcome of lines 59, 61
InitWith(outcomes) ==
    /\ \E g \in outcomes :
          /\ g.difficulty = "Medium"
          /\ solution = g.solution
          /\ puzzle = g.puzzle
    /\ user_grid = copy(puzzle)
    /\ difficulty = "Medium"
    /\ hint_used = 0
    /\ widget = [r \in Idx |-> [c \in Idx |-> NoWidget]]
    /\ keyed \in BOOLEAN
    /\ pc = "board"
    /\ pressed = "none"
    /\ msg = ""
    /\ before = NoRun
    /\ hint_changes = 0
    /\ was_clear = FALSE
    /\ CoopIdle
    /\ MadangIdle

Init == InitWith(GameOutcomes)

\* a button or a text change starts a run; the page of the run before is gone
StartRun(what) ==
    /\ pc = "idle"
    /\ pc' = "board"
    /\ pressed' = what
    /\ msg' = ""
    /\ before' = [user_grid |-> user_grid, hint_used |-> hint_used]
    /\ UNCHANGED <<widget, keyed, coop_vars, madang_vars>>

\* the mutant: the difficulty chosen is not recorded
new_game_nodiff(diff, g) ==
    /\ difficulty' = difficulty
    /\ solution' = g.solution
    /\ puzzle' = g.puzzle
    /\ user_grid' = copy(puzzle')
    /\ hint_used' = 0

\* the mutant: the hints used in the game before are carried over
new_game_keephints(diff, g) ==
    /\ difficulty' = diff
    /\ solution' = g.solution
    /\ puzzle' = g.puzzle
    /\ user_grid' = copy(puzzle')
    /\ hint_used' = hint_used

\* lines 71-76, reached from lines 103-111; g is the outcome of lines 73, 74
new_game(diff, g) ==
    /\ difficulty' = diff
    /\ solution' = g.solution
    /\ puzzle' = g.puzzle
    /\ user_grid' = copy(puzzle')
    /\ hint_used' = 0

PressDifficulty(diff, g) ==
    /\ g.difficulty = diff
    /\ StartRun(diff)
    /\ new_game(diff, g)
    /\ hint_changes' = 0
    /\ was_clear' = FALSE

\* lines 78-79, reached from lines 113-115
\* the mutant: a call puts back one cell only, the first that differs
reset_board_onecell ==
    /\ \E ds \in {LET Differs(x) == user_grid[x[1]][x[2]] # puzzle[x[1]][x[2]]
                   IN  SelectSeq(AllCells, Differs)} :
          user_grid' = IF Len(ds) = 0 THEN user_grid
                       ELSE SetCell(user_grid, ds[1], puzzle[ds[1][1]][ds[1][2]])
    /\ UNCHANGED <<solution, puzzle, difficulty, hint_used>>

\* the mutant: the reset only clears the player's first cell
reset_board_first ==
    /\ user_grid' = [user_grid EXCEPT ![0][0] = puzzle[0][0]]
    /\ UNCHANGED <<solution, puzzle, difficulty, hint_used>>

\* the mutant: the reset gives the hints back
reset_board_restores ==
    /\ user_grid' = copy(puzzle)
    /\ hint_used' = 0
    /\ UNCHANGED <<solution, puzzle, difficulty>>

reset_board ==
    /\ user_grid' = copy(puzzle)
    /\ UNCHANGED <<solution, puzzle, difficulty, hint_used>>

PressReset ==
    /\ StartRun("reset")
    /\ reset_board
    /\ UNCHANGED <<hint_changes, was_clear>>

\* lines 81-98, reached from lines 117-119
PressHint(pick) ==
    /\ StartRun("hint")
    /\ \E h \in {give_hint(solution, puzzle, user_grid, hint_used, pick)} :
           /\ user_grid' = h.user_grid
           /\ hint_used' = h.hint_used
           /\ hint_changes' = IF h.user_grid # user_grid THEN hint_changes + 1
                                                          ELSE hint_changes
    /\ UNCHANGED <<solution, puzzle, difficulty, was_clear>>

\* the mutant: the check button also puts the board back
PressCheck_resets ==
    /\ msg # "error"
    /\ StartRun("check")
    /\ reset_board
    /\ UNCHANGED <<hint_changes, was_clear>>

\* the check button is below the board: a run that stopped in the board
\* loop did not render it
PressCheck ==
    /\ msg # "error"
    /\ StartRun("check")
    /\ UNCHANGED <<solution, puzzle, user_grid, difficulty, hint_used, hint_changes,
                   was_clear>>

\* the player changes the text of an enabled cell widget
TypeText(r, c, t) ==
    /\ pc = "idle"
    /\ widget[r][c].made
    /\ puzzle[r][c] = 0
    /\ widget[r][c].txt # t
    /\ widget' = [widget EXCEPT ![r][c].txt = t]
    /\ pc' = "board"
    /\ pressed' = "text"
    /\ msg' = ""
    /\ before' = [user_grid |-> user_grid, hint_used |-> hint_used]
    /\ UNCHANGED <<solution, puzzle, user_grid, difficulty, hint_used, keyed,
                   hint_changes, was_clear, coop_vars, madang_vars>>

(***************************************************************************)
(* Lines 125-156: the board loop and the check.  The loop visits the cells *)
(* row by row; a ValueError of int() ends the run at that cell (the cells  *)
(* after it are not rendered, and the framework forgets their widgets).    *)
(***************************************************************************)
CellNo(r, c) == 9 * r + c

rendered(r, c) == text_input(widget[r][c], value_arg(puzzle, user_grid, r, c), keyed)

raises(r, c) == puzzle[r][c] = 0 /\ ~cell_value(rendered(r, c).txt).ok

stop_at ==
    IF \E r \in Idx, c \in Idx : raises(r, c)
    THEN CHOOSE n \in 0..80 :
            /\ raises(n \div 9, n % 9)
            /\ \A m \in 0..(n - 1) : ~raises(m \div 9, m % 9)
    ELSE 81

board_cell_nogiven(r, c, stop) ==
    IF CellNo(r, c) < stop
    THEN cell_value(rendered(r, c).txt).v
    ELSE user_grid[r][c]

\* user[r][c] after the loop that stopped at cell number stop (81: ran through)
board_cell(r, c, stop) ==
    IF CellNo(r, c) < stop /\ puzzle[r][c] = 0
    THEN cell_value(rendered(r, c).txt).v
    ELSE user_grid[r][c]

\* the mutant: user_grid and puzzle are one list, a write to one shows in both
Board_aliased ==
    /\ pc = "board"
    /\ \E stop \in {stop_at} :
           /\ user_grid' = [r \in Idx |-> [c \in Idx |-> board_cell(r, c, stop)]]
           /\ widget' = [r \in Idx |-> [c \in Idx |->
                           IF CellNo(r, c) <= stop THEN rendered(r, c) ELSE NoWidget]]
           /\ msg' = IF stop < 81 THEN "error"
                     ELSE IF pressed = "check"
                     THEN IF check_complete(user_grid') THEN "clear" ELSE "notyet"
                     ELSE ""
    /\ puzzle' = user_grid'
    /\ pc' = "idle"
    /\ pressed' = "none"
    /\ before' = NoRun
    /\ was_clear' = (was_clear \/ msg' = "clear")
    /\ UNCHANGED <<solution, difficulty, hint_used, keyed, hint_changes,
                 coop_vars, madang_vars>>

Board ==
    /\ pc = "board"
    /\ \E stop \in {stop_at} :
           /\ user_grid' = [r \in Idx |-> [c \in Idx |-> board_cell(r, c, stop)]]
           /\ widget' = [r \in Idx |-> [c \in Idx |->
                           IF CellNo(r, c) <= stop THEN rendered(r, c) ELSE NoWidget]]
           /\ msg' = IF stop < 81 THEN "error"
                     ELSE IF pressed = "check"
                     THEN IF check_complete(user_grid') THEN "clear" ELSE "notyet"
                     ELSE ""
    /\ pc' = "idle"
    /\ pressed' = "none"
    /\ before' = NoRun
    /\ was_clear' = (was_clear \/ msg' = "clear")
    /\ UNCHANGED <<solution, puzzle, difficulty, hint_used, keyed, hint_changes,
                 coop_vars, madang_vars>>

(***************************************************************************)
(* What the player types.                                                  *)
(***************************************************************************)
\* the player types in the first cells of the board (when they are editable)
PlayCells == {AllCells[k] : k \in 1..EditCells}

\* what the player types there
Texts == {<<>>, <<"4">>, <<"5">>}

Next ==
    \/ \E diff \in Difficulties, g \in GameOutcomes : PressDifficulty(diff, g)
    \/ PressReset
    \/ \E pick \in 0..(HintPick - 1) : PressHint(pick)
    \/ PressCheck
    \/ /\ pc = "idle"
       /\ \E x \in PlayCells, t \in Texts : TypeText(x[1], x[2], t)
    \/ Board

Spec == Init /\ [][Next]_vars

(***************************************************************************)
(* A player who solves the puzzle: the player enters a digit in the first  *)
(* cell that is still empty, the right one or, in the first cells of the   *)
(* board, possibly another one.                                            *)
(***************************************************************************)
to_fill ==
    LET Test(x) == puzzle[x[1]][x[2]] = 0 /\ user_grid[x[1]][x[2]] = 0
    IN  SelectSeq(AllCells, Test)

FillTexts(x) ==
    {str(solution[x[1]][x[2]])} \cup (IF x \in PlayCells THEN Texts \ {<<>>} ELSE {})

FillNext ==
    /\ pc = "idle"
    /\ \E todo \in {to_fill} :
          /\ Len(todo) > 0
          /\ \E t \in FillTexts(todo[1]) : TypeText(todo[1][1], todo[1][2], t)

NextSolve ==
    \/ FillNext
    \/ \E pick \in 0..(HintPick - 1) : PressHint(pick)
    \/ Board

SpecSolve == Init /\ [][NextSolve]_vars

(***************************************************************************)
(* Generation: the first change of game of a session, the new game drawn   *)
(* from the larger sample.                                                 *)
(***************************************************************************)
FirstGame ==
    \E g \in GameOutcomes :
        g.difficulty = "Medium" /\ g.solution = solution /\ g.puzzle = puzzle

NextGen ==
    \/ /\ FirstGame
       /\ \E diff \in Difficulties, g \in GenOutcomes : PressDifficulty(diff, g)
    \/ Board

SpecGen == Init /\ [][NextGen]_vars

(***************************************************************************)
(* The completion check on filled boards: sessions in which the player has *)
(* filled the editable cells from a grid t (the given cells stay).         *)
(***************************************************************************)
Overlay(puzz, t) ==
    [r \in Idx |-> [c \in Idx |-> IF puzz[r][c] # 0 THEN puzz[r][c] ELSE t[r][c]]]

SwapRows(grid, r1, r2) ==
    [r \in Idx |-> [c \in Idx |->
        IF r = r1 THEN grid[r2][c] ELSE IF r = r2 THEN grid[r1][c] ELSE grid[r][c]]]

SwapCols(grid, c1, c2) ==
    [r \in Idx |-> [c \in Idx |->
        IF c = c1 THEN grid[r][c2] ELSE IF c = c2 THEN grid[r][c1] ELSE grid[r][c]]]

SwapCells(grid, x, y) ==
    SetCell(SetCell(grid, x, grid[y[1]][y[2]]), y, grid[x[1]][x[2]])

\* the grids the player fills in, for the solution sol
Fillings(sol) ==
    {sol}
    \cup {SetCell(sol, x, d) : x \in Idx \X Idx, d \in 0..9}
    \cup {SwapRows(sol, r1, r2) : r1 \in Idx, r2 \in Idx}
    \cup {SwapCols(sol, c1, c2) : c1 \in Idx, c2 \in Idx}
    \cup {SwapCells(sol, <<r, c1>>, <<r, c2>>) : r \in Idx, c1 \in Idx, c2 \in Idx}
    \cup {SwapCells(sol, <<r1, c>>, <<r2, c>>) : r1 \in Idx, r2 \in Idx, c \in Idx}

InitCheck ==
    /\ \E g \in GameOutcomes :
          /\ g.difficulty = "Medium"
          /\ solution = g.solution
          /\ puzzle = g.puzzle
    /\ \E t \in Fillings(solution) : user_grid = Overlay(puzzle, t)
    /\ difficulty = "Medium"
    /\ hint_used = 0
    /\ widget = [r \in Idx |-> [c \in Idx |->
                   [made |-> TRUE,
                    txt |-> value_arg(puzzle, user_grid, r, c),
                    val |-> value_arg(puzzle, user_grid, r, c)]]]
    /\ keyed \in BOOLEAN
    /\ pc = "idle"
    /\ pressed = "none"
    /\ msg = ""
    /\ before = NoRun
    /\ hint_changes = 0
    /\ was_clear = FALSE
    /\ CoopIdle
    /\ MadangIdle

NextCheck ==
    \/ PressCheck
    \/ Board

SpecCheck == InitCheck /\ [][NextCheck]_vars

(***************************************************************************)
(* Cell input: the player types texts of every kind into the first cells   *)
(* of the board.                                                           *)
(***************************************************************************)
InputTexts ==
    {<<>>, <<"0">>, <<"7">>, <<"a">>, <<"1", "2">>, <<" ", "7">>,
     <<"sup2">>, <<"ar3">>}

NextInput ==
    \/ /\ pc = "idle"
       /\ \E x \in PlayCells, t \in InputTexts : TypeText(x[1], x[2], t)
    \/ Board

SpecInput == Init /\ [][NextInput]_vars

(***************************************************************************)
(* make_puzzle with other difficulty keys: new_game(diff) called with a    *)
(* key that keep_map does not have (and, to compare, with Medium).         *)
(***************************************************************************)
OtherKeys == {"", "easy", "Expert"}

KeyOutcomes == Outcomes(OtherKeys \cup {"Medium"}, GenRnd, GenCp)

NextKeys ==
    \/ /\ FirstGame
       /\ \E diff \in OtherKeys \cup {"Medium"}, g \in KeyOutcomes :
             PressDifficulty(diff, g)
    \/ Board

SpecKeys == Init /\ [][NextKeys]_vars

(***************************************************************************)
(* reset_board called twice in succession: the handler of the reset button *)
(* calling reset_board a second time before the board is drawn.            *)
(***************************************************************************)
ResetAgain ==
    /\ pc = "board"
    /\ pressed = "reset"
    /\ pressed' = "reset2"
    /\ reset_board
    /\ UNCHANGED <<widget, keyed, pc, msg, before, hint_changes, was_clear,
                 coop_vars, madang_vars>>

NextReset ==
    \/ \E diff \in Difficulties, g \in GameOutcomes : PressDifficulty(diff, g)
    \/ PressReset
    \/ ResetAgain
    \/ \E pick \in 0..(HintPick - 1) : PressHint(pick)
    \/ /\ pc = "idle"
       /\ \E x \in PlayCells, t \in Texts : TypeText(x[1], x[2], t)
    \/ Board

SpecReset == Init /\ [][NextReset]_vars

(***************************************************************************)
(* Play on a board that is full: sessions in which the player has filled   *)
(* every editable cell, rightly or, in the first cells, possibly wrongly,  *)
(* and then goes on with every button and with typing.                     *)
(***************************************************************************)
FullBoards(sol) ==
    {sol} \cup {SetCell(sol, x, d) : x \in PlayCells, d \in {4, 5}}

InitPlay ==
    /\ \E g \in GameOutcomes :
          /\ g.difficulty = "Medium"
          /\ solution = g.solution
          /\ puzzle = g.puzzle
    /\ \E t \in FullBoards(solution) : user_grid = Overlay(puzzle, t)
    /\ difficulty = "Medium"
    /\ hint_used = 0
    /\ widget = [r \in Idx |-> [c \in Idx |->
                   [made |-> TRUE,
                    txt |-> value_arg(puzzle, user_grid, r, c),
                    val |-> value_arg(puzzle, user_grid, r, c)]]]
    /\ keyed \in BOOLEAN
    /\ pc = "idle"
    /\ pressed = "none"
    /\ msg = ""
    /\ before = NoRun
    /\ hint_changes = 0
    /\ was_clear = FALSE
    /\ CoopIdle
    /\ MadangIdle

\* the player goes on in the game that was filled; a new game (with another
\* solution) can be started at any time and is drawn, no more
NextPlay ==
    \/ \E diff \in Difficulties, g \in GameOutcomes :
          g.solution # solution /\ PressDifficulty(diff, g)
    \/ FirstGame /\ PressReset
    \/ FirstGame /\ \E pick \in 0..(HintPick - 1) : PressHint(pick)
    \/ FirstGame /\ PressCheck
    \/ /\ FirstGame
       /\ pc = "idle"
       /\ \E x \in PlayCells, t \in Texts : TypeText(x[1], x[2], t)
    \/ Board

SpecPlay == InitPlay /\ [][NextPlay]_vars

(***************************************************************************)
(* Hints on filled boards: the sessions of the completion check, in which  *)
(* the player also asks for hints.                                         *)
(***************************************************************************)
NextFilled ==
    \/ PressCheck
    \/ \E pick \in 0..(HintPick - 1) : PressHint(pick)
    \/ Board

SpecFilled == InitCheck /\ [][NextFilled]_vars

(***************************************************************************)
(* The claims.                                                             *)
(***************************************************************************)
AllPos == Idx \X Idx

RowCells(r) == {x \in AllPos : x[1] = r}
ColCells(c) == {x \in AllPos : x[2] = c}
BoxCells(b) == {x \in AllPos : 3 * (x[1] \div 3) + (x[2] \div 3) = b}
Regions == {RowCells(r) : r \in Idx} \cup {ColCells(c) : c \in Idx}
           \cup {BoxCells(b) : b \in Idx}

\* every row, column and box of grid is exactly {1..9}
ValidGrid(grid) == \A reg \in Regions : {grid[x[1]][x[2]] : x \in reg} = 1..9

NonZero(grid) == {x \in AllPos : grid[x[1]][x[2]] # 0}

\* C1: every grid shuffled_solution returns has each of its 9 rows, 9 columns
\* and 9 boxes equal to {1..9}: the solution of every session is such a grid.
C1_SolutionValid == ValidGrid(solution)

\* a game started by a difficulty button, with rows, columns and digits moved
C1_Witness ==
    /\ pc = "board"
    /\ pressed \in Difficulties
    /\ \E r \in Idx : solution[r] # base_solution[r]
    /\ solution[0][0] # base_solution[0][0]
    /\ \E c \in Idx : \A r \in Idx : solution[r][c] # base_solution[r][c]

\* C2: the puzzle make_puzzle returns agrees with the solution on its non-zero
\* cells and has exactly keep (45 / 35 / 28) non-zero cells; Hard: 28 and 53.
C2_PuzzleCarved ==
    /\ \A x \in NonZero(puzzle) : puzzle[x[1]][x[2]] = solution[x[1]][x[2]]
    /\ difficulty = "Easy" => Cardinality(NonZero(puzzle)) = 45
    /\ difficulty = "Medium" => Cardinality(NonZero(puzzle)) = 35
    /\ difficulty = "Hard" => /\ Cardinality(NonZero(puzzle)) = 28
                              /\ Cardinality(AllPos \ NonZero(puzzle)) = 53
    /\ difficulty \in Difficulties

C2_Witness ==
    /\ pc = "board"
    /\ pressed = "Hard"
    /\ difficulty = "Hard"
    /\ Cardinality(NonZero(puzzle)) = 28
    /\ puzzle[0][0] = 0
    /\ puzzle[8][8] # 0

\* C3: check_complete(grid) is true iff grid has no 0 and every row, column
\* and box is {1..9}: the message of a check says "clear" exactly for those.
C3_CheckComplete ==
    msg \in {"clear", "notyet"} =>
        /\ (msg = "clear") <=>
              (NonZero(user_grid) = AllPos /\ ValidGrid(user_grid))
        /\ NonZero(user_grid) # AllPos => msg = "notyet"

\* a checked board without a 0 whose rows and columns are all {1..9}, but not
\* its boxes
C3_Witness ==
    /\ msg = "notyet"
    /\ NonZero(user_grid) = AllPos
    /\ \A r \in Idx : {user_grid[r][c] : c \in Idx} = 1..9
    /\ \A c \in Idx : {user_grid[r][c] : r \in Idx} = 1..9

\* C4: in every session state every non-zero cell of puzzle equals the cell of
\* solution, and user_grid holds puzzle's value at every given cell.
C4_GivenFrozen ==
    \A x \in NonZero(puzzle) :
        /\ puzzle[x[1]][x[2]] = solution[x[1]][x[2]]
        /\ user_grid[x[1]][x[2]] = puzzle[x[1]][x[2]]

\* after a change of game, a hint and a wrong entry, on a board whose first
\* cell is given
C4_Witness ==
    /\ pc = "idle"
    /\ difficulty = "Easy"
    /\ puzzle[0][0] # 0
    /\ widget[0][0].txt # str(puzzle[0][0])
    /\ hint_used > 0

(***************************************************************************)
(* give_hint: a state with pc = "board" and pressed = "hint" is the state  *)
(* give_hint returned in; before holds what it was called with.            *)
(***************************************************************************)
HintReturned == pc = "board" /\ pressed = "hint"

\* the editable cells that were still 0 / wrongly filled when the run started
BlanksBefore ==
    {x \in AllPos : puzzle[x[1]][x[2]] = 0 /\ before.user_grid[x[1]][x[2]] = 0}
WrongsBefore ==
    {x \in AllPos : /\ puzzle[x[1]][x[2]] = 0
                    /\ before.user_grid[x[1]][x[2]] # 0
                    /\ before.user_grid[x[1]][x[2]] # solution[x[1]][x[2]]}
Changed == {x \in AllPos : user_grid[x[1]][x[2]] # before.user_grid[x[1]][x[2]]}

\* C5: with hint_used >= HINT_LIMIT give_hint leaves user_grid and hint_used
\* unchanged, whatever user_grid holds.
C5_ExhaustedNoOp ==
    (HintReturned /\ before.hint_used >= HINT_LIMIT) =>
        /\ user_grid = before.user_grid
        /\ hint_used = before.hint_used

\* the hint asked for with the budget used up, on a full board with a wrong cell
C5_Witness ==
    /\ HintReturned
    /\ before.hint_used = HINT_LIMIT
    /\ BlanksBefore = {}
    /\ WrongsBefore # {}

\* C6: with budget left and an untouched editable blank, give_hint changes
\* exactly one cell, one of those blanks, to solution's value, and hint_used
\* increases by 1.
C6_RevealsBlank ==
    (HintReturned /\ before.hint_used < HINT_LIMIT /\ BlanksBefore # {}) =>
        /\ \E x \in BlanksBefore :
              /\ Changed = {x}
              /\ user_grid[x[1]][x[2]] = solution[x[1]][x[2]]
        /\ hint_used = before.hint_used + 1

\* a blank revealed while a wrongly filled cell was on the board
C6_Witness ==
    /\ HintReturned
    /\ before.hint_used < HINT_LIMIT
    /\ BlanksBefore # {}
    /\ WrongsBefore # {}
    /\ Cardinality(Changed) = 1

\* C7: give_hint overwrites a wrongly filled editable cell only when no
\* editable cell is still 0; in that case (budget left, a wrong cell there)
\* exactly one wrong cell is set to solution's value and hint_used increases
\* by 1.
C7_WrongOnlyAsFallback ==
    HintReturned =>
        /\ (Changed \cap WrongsBefore # {}) => BlanksBefore = {}
        /\ (before.hint_used < HINT_LIMIT /\ BlanksBefore = {} /\ WrongsBefore # {}) =>
              /\ \E x \in WrongsBefore :
                    /\ Changed = {x}
                    /\ user_grid[x[1]][x[2]] = solution[x[1]][x[2]]
              /\ hint_used = before.hint_used + 1

\* the fallback has corrected a wrong cell
C7_Witness ==
    /\ HintReturned
    /\ BlanksBefore = {}
    /\ Changed \cap WrongsBefore # {}
    /\ hint_used = before.hint_used + 1

\* C8: give_hint adds exactly 1 to hint_used unless the budget was used up or
\* every editable cell already equalled solution; in those two cases
\* user_grid and hint_used are unchanged.  A hint is consumed exactly when a
\* cell changes.
SolvedBefore ==
    \A x \in AllPos : puzzle[x[1]][x[2]] = 0 =>
        before.user_grid[x[1]][x[2]] = solution[x[1]][x[2]]

C8_HintAccounting ==
    HintReturned =>
        /\ (before.hint_used >= HINT_LIMIT \/ SolvedBefore) =>
              (user_grid = before.user_grid /\ hint_used = before.hint_used)
        /\ ~(before.hint_used >= HINT_LIMIT \/ SolvedBefore) =>
              hint_used = before.hint_used + 1
        /\ (hint_used # before.hint_used) <=> (Changed # {})

\* a hint asked for, with budget left, on the solved board
C8_Witness ==
    /\ HintReturned
    /\ before.hint_used < HINT_LIMIT
    /\ SolvedBefore
    /\ user_grid = solution

\* C9: give_hint never lowers the number of non-zero cells of user_grid: it
\* grows by 1 when a blank is revealed and is unchanged otherwise.
C9_NonZeroMonotone ==
    HintReturned =>
        /\ Cardinality(NonZero(user_grid)) >= Cardinality(NonZero(before.user_grid))
        /\ (before.hint_used < HINT_LIMIT /\ BlanksBefore # {}) =>
              Cardinality(NonZero(user_grid))
                 = Cardinality(NonZero(before.user_grid)) + 1
        /\ ~(before.hint_used < HINT_LIMIT /\ BlanksBefore # {}) =>
              Cardinality(NonZero(user_grid))
                 = Cardinality(NonZero(before.user_grid))

\* a wrong cell corrected: a cell changed and the count stayed
C9_Witness ==
    /\ HintReturned
    /\ Changed # {}
    /\ Cardinality(NonZero(user_grid)) = Cardinality(NonZero(before.user_grid))

\* C10: 0 <= hint_used <= 3 in every session state, at most 3 calls of
\* give_hint change user_grid in one game (resets included), and with the
\* budget used up a hint request changes nothing.
C10_HintBudget ==
    /\ hint_used \in 0..3
    /\ hint_changes \in 0..3
    /\ (HintReturned /\ before.hint_used = 3) =>
          (user_grid = before.user_grid /\ hint_used = 3)

\* the budget used up, the board reset (the hinted cells are empty again),
\* and a hint asked for
C10_Witness ==
    /\ HintReturned
    /\ ~keyed
    /\ before.hint_used = 3
    /\ hint_changes = 3
    /\ before.user_grid = puzzle

(***************************************************************************)
(* new_game and reset_board: a state with pc = "board" and pressed a       *)
(* difficulty (pressed = "reset") is the state the handler returned in.    *)
(***************************************************************************)
\* C11: new_game(diff), from any session state, installs a valid solution, a
\* puzzle carved from it at difficulty diff, user_grid equal to that puzzle
\* cell for cell, hint_used = 0 and difficulty = diff.
C11_NewGame ==
    (pc = "board" /\ pressed \in Difficulties) =>
        /\ difficulty = pressed
        /\ ValidGrid(solution)
        /\ \A x \in NonZero(puzzle) : puzzle[x[1]][x[2]] = solution[x[1]][x[2]]
        /\ Cardinality(NonZero(puzzle)) = keep_map[pressed]
        /\ \A x \in AllPos : user_grid[x[1]][x[2]] = puzzle[x[1]][x[2]]
        /\ hint_used = 0

\* a new game of another difficulty started from a game with hints used and
\* a cell filled in
C11_Witness ==
    /\ pc = "board"
    /\ pressed = "Hard"
    /\ difficulty = "Hard"
    /\ before.hint_used > 0
    /\ \E x \in AllPos : before.user_grid[x[1]][x[2]] # user_grid[x[1]][x[2]]
    /\ hint_used = 0

\* C12: reset_board sets user_grid to puzzle at every cell and leaves
\* solution, puzzle, difficulty and hint_used unchanged (consumed hints are
\* not restored).
C12_ResetBoard ==
    [][(pc = "idle" /\ pressed' = "reset") =>
          /\ \A x \in AllPos : user_grid'[x[1]][x[2]] = puzzle[x[1]][x[2]]
          /\ solution' = solution
          /\ puzzle' = puzzle
          /\ difficulty' = difficulty
          /\ hint_used' = hint_used]_vars

\* a reset that erased a hint reveal and kept the hints used
C12_Witness ==
    /\ pc = "board"
    /\ pressed = "reset"
    /\ before.hint_used > 0
    /\ hint_used = before.hint_used
    /\ \E x \in AllPos \ {<<0, 0>>} :
          before.user_grid[x[1]][x[2]] # 0 /\ user_grid[x[1]][x[2]] = 0
    /\ user_grid = puzzle

\* C13: puzzle and solution change only through new_game: every step that
\* changes one of them is the new_game of a difficulty button, and the
\* solution new_game installs has no cell blanked by make_puzzle; cell edits,
\* hints, resets, checks and the board loop leave both unchanged.
C13_OnlyNewGame ==
    [][/\ (puzzle' # puzzle \/ solution' # solution) =>
             (pc = "idle" /\ pressed' \in Difficulties)
       /\ (pc = "idle" /\ pressed' \in Difficulties) =>
             (NonZero(solution') = AllPos /\ NonZero(puzzle') # AllPos)]_vars

\* a game in which a cell was typed, a hint taken and the board checked, and
\* the puzzle still has its blanks where user_grid is filled
C13_Witness ==
    /\ pc = "idle"
    /\ msg = "notyet"
    /\ hint_used > 0
    /\ \E x \in PlayCells : puzzle[x[1]][x[2]] = 0 /\ user_grid[x[1]][x[2]] # 0
    /\ \A x \in NonZero(puzzle) : puzzle[x[1]][x[2]] = solution[x[1]][x[2]]

(***************************************************************************)
(* Cell input.  When a run is over (pc = "idle") the text of the widget of *)
(* an editable cell is the text the player entered there.                  *)
(***************************************************************************)
\* the value the input policy gives a text: d for the single digit d of
\* 1..9, 0 for every other text
PolicyValue(t) ==
    IF \E d \in 1..9 : t = <<DigitChar[d]>>
    THEN CHOOSE d \in 1..9 : t = <<DigitChar[d]>>
    ELSE 0

\* C14: every text entered in an editable cell that is not exactly a single
\* digit 1-9 is stored in user_grid as 0 and no error is raised; a single
\* digit d of 1..9 is stored as d.
C14_InputPolicy ==
    pc = "idle" =>
        /\ msg # "error"
        /\ \A x \in PlayCells :
              (puzzle[x[1]][x[2]] = 0 /\ widget[x[1]][x[2]].made) =>
                  user_grid[x[1]][x[2]] = PolicyValue(widget[x[1]][x[2]].txt)

\* C15: make_puzzle with a difficulty key that is not one of the three
\* configured keys behaves exactly as for Medium: the puzzle has exactly 35
\* non-zero cells, each equal to the solution's cell, and it is the puzzle
\* that Medium gives for the same solution and the same shuffle of the cells.
C15_UnknownKey ==
    (pc = "board" /\ pressed \in OtherKeys) =>
        /\ Cardinality(NonZero(puzzle)) = 35
        /\ \A x \in NonZero(puzzle) : puzzle[x[1]][x[2]] = solution[x[1]][x[2]]
        /\ \E cp \in GenCp : puzzle = make_puzzle(solution, "Medium", cp)

\* a game made with the key "Expert"
C15_Witness ==
    /\ pc = "board"
    /\ pressed = "Expert"
    /\ difficulty = "Expert"
    /\ Cardinality(NonZero(puzzle)) = 35
    /\ Cardinality(AllPos \ NonZero(puzzle)) = 46

\* C16: calling reset_board twice in succession yields the same user_grid
\* and the same rest of the session state as calling it once.
C16_ResetIdempotent ==
    [][(pressed = "reset" /\ pressed' = "reset2") =>
          /\ user_grid' = user_grid
          /\ solution' = solution
          /\ puzzle' = puzzle
          /\ difficulty' = difficulty
          /\ hint_used' = hint_used]_vars

\* the second of two calls has returned, on a board that had two cells filled
\* in before the first
C16_Witness ==
    /\ pc = "board"
    /\ pressed = "reset2"
    /\ Cardinality({x \in AllPos : before.user_grid[x[1]][x[2]] # puzzle[x[1]][x[2]]}) >= 2
    /\ user_grid = puzzle

\* C17: base_solution returns the grid with
\* cell(r, c) = ((r*3 + r div 3 + c) mod 9) + 1 for all r, c in 0..8, so
\* cell(0,0) = 1, cell(0,8) = 9 and cell(1,0) = 4; it has no random input, so
\* a game whose solution is base_solution's grid as it is has these cells.
C17_BaseSolution ==
    /\ \A r \in 0..8, c \in 0..8 :
          base_solution[r][c] = ((r * 3 + (r \div 3) + c) % 9) + 1
    /\ base_solution[0][0] = 1
    /\ base_solution[0][8] = 9
    /\ base_solution[1][0] = 4
    /\ (pc = "board" /\ pressed \in Difficulties /\ solution = base_solution) =>
          /\ \A r \in 0..8, c \in 0..8 :
                solution[r][c] = ((r * 3 + (r \div 3) + c) % 9) + 1
          /\ solution[0][0] = 1 /\ solution[0][8] = 9 /\ solution[1][0] = 4

\* the game whose solution is base_solution's grid as it is
C17_Witness ==
    /\ pc = "board"
    /\ pressed \in Difficulties
    /\ solution = base_solution
    /\ solution[0][0] = 1
    /\ solution[0][8] = 9
    /\ solution[1][0] = 4

(***************************************************************************)
(* The completion check.                                                   *)
(***************************************************************************)
\* what the player can still do
CanEdit == \E x \in AllPos, t \in Texts : ENABLED TypeText(x[1], x[2], t)
CanHint == ENABLED (\E pick \in 0..(HintPick - 1) : PressHint(pick))
CanReset == ENABLED PressReset
CanNewGame ==
    ENABLED (\E diff \in Difficulties, g \in GameOutcomes : PressDifficulty(diff, g))
CanCheck == ENABLED PressCheck

\* in a state shown after a check, the message is the verdict on user_grid
Verdict ==
    (pc = "idle" /\ msg \in {"clear", "notyet"}) =>
        ((msg = "clear") <=> (NonZero(user_grid) = AllPos /\ ValidGrid(user_grid)))

\* C18: a run started by the check button changes none of solution, puzzle,
\* user_grid, difficulty, hint_used; after a check that answered "Clear!"
\* cell edits, hints, reset, new game and a further check remain possible, and
\* every later check gives the verdict on the user_grid of its time.
C18_CheckReadOnly ==
    /\ [](Verdict)
    /\ []((pc = "idle" /\ msg = "clear") =>
            (CanEdit /\ CanHint /\ CanReset /\ CanNewGame /\ CanCheck))
    /\ [][(pressed' = "check" \/ pressed = "check") =>
             /\ solution' = solution
             /\ puzzle' = puzzle
             /\ user_grid' = user_grid
             /\ difficulty' = difficulty
             /\ hint_used' = hint_used]_vars

\* a check answered "Clear!", the player then changed a cell, and a later
\* check of the same game answers that the board is not solved
C18_Witness ==
    /\ pc = "idle"
    /\ was_clear
    /\ msg = "notyet"
    /\ user_grid # solution

\* C20: a hint reveal survives the run that made it: when the run in which
\* give_hint set user_grid[r][c] to solution[r][c] ends, user_grid[r][c]
\* still equals solution[r][c], whichever way the framework identifies the
\* cell's keyed widget.
C20_HintSurvives ==
    [][(pc = "board" /\ pressed = "hint" /\ pc' = "idle") =>
          \A x \in Changed : user_grid'[x[1]][x[2]] = solution[x[1]][x[2]]]_vars

\* C21: at the end of a run in which reset_board or new_game was executed,
\* user_grid equals puzzle at every cell: text typed before into a cell
\* widget is not written back by the board loop of that run.
C21_ResetSurvives ==
    [][(pc = "board" /\ pressed \in Difficulties \cup {"reset"} /\ pc' = "idle") =>
          \A x \in AllPos : user_grid'[x[1]][x[2]] = puzzle'[x[1]][x[2]]]_vars

\* C22: once check_complete(user_grid) is true, a hint request with budget
\* remaining never makes check_complete(user_grid) false, also when the
\* puzzle has a completion other than the stored solution.
C22_HintKeepsComplete ==
    [][(pc = "idle" /\ pressed' = "hint" /\ hint_used < HINT_LIMIT
        /\ check_complete(user_grid)) => check_complete(user_grid')]_vars

\* C23: in every session state, the first included, the number of non-zero
\* cells of puzzle is the keep value (45 / 35 / 28) of the difficulty the
\* session records (and shows).
C23_DifficultyAgrees ==
    /\ difficulty \in Difficulties
    /\ Cardinality(NonZero(puzzle)) =
          (IF difficulty = "Easy" THEN 45 ELSE IF difficulty = "Medium" THEN 35 ELSE 28)

\* a Hard game in play after the Medium game of the first load
C23_Witness ==
    /\ pc = "idle"
    /\ difficulty = "Hard"
    /\ Cardinality(NonZero(puzzle)) = 28
    /\ hint_used > 0

(***************************************************************************)
(* The Sudoku session at rest, for the specifications of the other two     *)
(* programs (keyed, how the framework identifies a widget, is theirs to    *)
(* choose).                                                                *)
(***************************************************************************)
IdleGame ==
    CHOOSE g \in Outcomes({"Medium"}, {Rnd(0, 1, 0)}, {Affine(81, 80, 45)}) : TRUE

SudokuIdle ==
    /\ solution = IdleGame.solution
    /\ puzzle = IdleGame.puzzle
    /\ user_grid = copy(puzzle)
    /\ difficulty = "Medium"
    /\ hint_used = 0
    /\ widget = [r \in Idx |-> [c \in Idx |-> NoWidget]]
    /\ pc = "board"
    /\ pressed = "none"
    /\ msg = ""
    /\ before = NoRun
    /\ hint_changes = 0
    /\ was_clear = FALSE

(***************************************************************************)
(* src/coop.py, the collaboration tool: the subtask list of a task and     *)
(* its text form in the column tasks.description.                          *)
(*                                                                         *)
(* A text is a sequence of characters; "nl" and "cr" stand for the line    *)
(* feed and the carriage return.  A subtask is the tuple                   *)
(* <<label, weight, done>> of the script.  None and the empty text are     *)
(* one value here, <<>>: the script reads the column as                    *)
(* r.get("description") or "" wherever it reads it.                        *)
(***************************************************************************)
Max(a, b) == IF a > b THEN a ELSE b

DecDigit == <<"0", "1", "2", "3", "4", "5", "6", "7", "8", "9">>

\* the line boundaries of str.splitlines among the characters of the model
LineBoundary == {"nl", "cr"}

\* the position of the first character of s that is in set, 0 if none
RECURSIVE find(_, _, _)
find(s, set, i) ==
    IF i > Len(s) THEN 0 ELSE IF s[i] \in set THEN i ELSE find(s, set, i + 1)

\* str.splitlines(): "cr" "nl" is one boundary, no empty last line
RECURSIVE splitlines(_)
splitlines(s) ==
    IF s = <<>> THEN <<>>
    ELSE LET k == find(s, LineBoundary, 1)
             e == IF k > 0 /\ k < Len(s) /\ s[k] = "cr" /\ s[k + 1] = "nl"
                  THEN k + 1 ELSE k
         IN  IF k = 0 THEN <<s>>
             ELSE <<SubSeq(s, 1, k - 1)>> \o splitlines(SubSeq(s, e + 1, Len(s)))

\* str.split(sep) for a one-character separator
RECURSIVE split(_, _)
split(s, sep) ==
    LET k == find(s, {sep}, 1)
    IN  IF k = 0 THEN <<s>>
        ELSE <<SubSeq(s, 1, k - 1)>> \o split(SubSeq(s, k + 1, Len(s)), sep)

\* the number a text of decimal digits denotes
RECURSIVE digits_value(_)
digits_value(s) ==
    IF s = <<>> THEN 0
    ELSE 10 * digits_value(SubSeq(s, 1, Len(s) - 1))
         + (CHOOSE d \in 0..9 : DecDigit[d + 1] = s[Len(s)])

\* int(text) at lines 660 and 665, for a text already stripped:
\* [ok |-> FALSE] stands for the exception the script catches
int_text(s) ==
    IF Len(s) > 0 /\ \A i \in 1..Len(s) : \E d \in 1..10 : DecDigit[d] = s[i]
    THEN [ok |-> TRUE, v |-> digits_value(s)]
    ELSE [ok |-> FALSE, v |-> 0]

\* the text of f"{int(weight)}" at line 687, weight >= 0
RECURSIVE format_int(_)
format_int(n) ==
    IF n < 10 THEN <<DecDigit[n + 1]>>
    ELSE format_int(n \div 10) \o <<DecDigit[(n % 10) + 1]>>

startswith(s, p) == Len(s) >= Len(p) /\ SubSeq(s, 1, Len(p)) = p

\* lines 653-679: the subtask of one line, stripped and not empty
parse_line(line) ==
    IF find(line, {"|"}, 1) > 0
    THEN LET raw == split(line, "|")
             parts == [i \in 1..Len(raw) |-> strip(raw[i])]
             weight == IF Len(parts) > 1 /\ int_text(parts[2]).ok
                       THEN int_text(parts[2]).v ELSE 0
             done == IF Len(parts) > 2 /\ int_text(parts[3]).ok
                     THEN int_text(parts[3]).v # 0 ELSE FALSE
         IN  <<parts[1], Max(0, Min(100, weight)), done>>
    ELSE IF startswith(line, <<"[", "x", "]", " ">>)
         THEN <<strip(SubSeq(line, 5, Len(line))), 100, TRUE>>
    ELSE IF startswith(line, <<"[", " ", "]", " ">>)
         THEN <<strip(SubSeq(line, 5, Len(line))), 100, FALSE>>
    ELSE <<strip(line), 100, FALSE>>

\* lines 648-652, 680: the loop over the lines, empty lines skipped
RECURSIVE parse_lines(_)
parse_lines(lines) ==
    IF lines = <<>> THEN <<>>
    ELSE IF strip(Head(lines)) = <<>> THEN parse_lines(Tail(lines))
    ELSE <<parse_line(strip(Head(lines)))>> \o parse_lines(Tail(lines))

parse_subtasks(description) ==
    IF description = <<>> THEN <<>> ELSE parse_lines(splitlines(description))

\* line 687: the line of one subtask
subtask_line(t) ==
    t[1] \o <<"|">> \o format_int(t[2]) \o <<"|">> \o (IF t[3] THEN <<"1">> ELSE <<"0">>)

\* the mutant: the lines are joined by a blank
RECURSIVE serialize_subtasks_blank(_)
serialize_subtasks_blank(subtasks) ==
    IF subtasks = <<>> THEN <<>>
    ELSE IF Len(subtasks) = 1 THEN subtask_line(subtasks[1])
    ELSE subtask_line(Head(subtasks)) \o <<" ">> \o serialize_subtasks_blank(Tail(subtasks))

RECURSIVE serialize_subtasks(_)
serialize_subtasks(subtasks) ==
    IF subtasks = <<>> THEN <<>>
    ELSE IF Len(subtasks) = 1 THEN subtask_line(subtasks[1])
    ELSE subtask_line(Head(subtasks)) \o <<"nl">> \o serialize_subtasks(Tail(subtasks))

\* sum(int(w) for _, w, done in subtasks if done)
RECURSIVE sum_done(_)
sum_done(subtasks) ==
    IF subtasks = <<>> THEN 0
    ELSE (IF Head(subtasks)[3] THEN Head(subtasks)[2] ELSE 0) + sum_done(Tail(subtasks))

calc_progress_from_subtasks(subtasks) ==
    IF subtasks = <<>> THEN 0 ELSE Min(100, Max(0, sum_done(subtasks)))

(***************************************************************************)
(* A subtask list written to the column description and read back.         *)
(***************************************************************************)
\* the longest subtask list that is written and read back
RoundLen == 2

LabelSamples ==
    {<<"a">>, <<"a", " ", "b">>, <<"[", "x", "]", " ", "a">>,
     <<"a", "|", "b">>, <<" ", "a">>, <<"a", "nl", "b">>}

WeightSamples == {0, 100, 150}

SubtaskSamples == LabelSamples \X WeightSamples \X BOOLEAN

SubtaskLists == UNION {[1..n -> SubtaskSamples] : n \in 0..RoundLen}

InitRound ==
    /\ round \in {[pc |-> "in", subtasks |-> st, text |-> <<>>, out |-> <<>>] :
                    st \in SubtaskLists}
    /\ SudokuIdle
    /\ keyed = TRUE
    /\ TaskIdle
    /\ AccessIdle
    /\ LoginIdle
    /\ MadangIdle

Serialize ==
    /\ round.pc = "in"
    /\ round' = [round EXCEPT !.pc = "text",
                              !.text = serialize_subtasks(round.subtasks)]
    /\ UNCHANGED <<sudoku_vars, task_vars, access_vars, login_vars, madang_vars>>

Parse ==
    /\ round.pc = "text"
    /\ round' = [round EXCEPT !.pc = "out", !.out = parse_subtasks(round.text)]
    /\ UNCHANGED <<sudoku_vars, task_vars, access_vars, login_vars, madang_vars>>

NextRound == Serialize \/ Parse

SpecRound == InitRound /\ [][NextRound]_vars

\* the lists C27 is about: labels not empty, without "|" and line breaks,
\* without blanks at either end; weights in 0..100
ValidSubtasks(st) ==
    \A i \in 1..Len(st) :
        /\ st[i][1] # <<>>
        /\ find(st[i][1], {"|"} \cup LineBoundary, 1) = 0
        /\ strip(st[i][1]) = st[i][1]
        /\ st[i][2] \in 0..100

MaxSub == 2

\* lines 188-211: the sample row
SeedTask ==
    [status |-> "Todo", progress |-> 0,
     description |-> <<"a", "|", "4", "0", "|", "0", "nl",
                       "b", "|", "6", "0", "|", "0">>]

\* the row after seed_if_empty: the sample row is inserted into an empty table
seeded(t, others) == IF t = NoTask /\ ~others THEN SeedTask ELSE t

\* lines 1481-1486, 1661-1666: the status that goes with a progress
status_of(prog) ==
    IF prog = 0 THEN "Todo" ELSE IF prog = 100 THEN "Done" ELSE "In Progress"

\* lines 1477-1494, 1651-1676: the row update_task writes for a subtask list
updated(subtasks) ==
    [status |-> status_of(calc_progress_from_subtasks(subtasks)),
     progress |-> calc_progress_from_subtasks(subtasks),
     description |-> serialize_subtasks(subtasks)]

\* lines 1446-1456: the subtasks as view mode shows them
subtasks_for_view(r) ==
    LET orig == parse_subtasks(r.description)
    IN  IF r.status = "Done"
        THEN [i \in 1..Len(orig) |-> <<orig[i][1], orig[i][2], TRUE>>]
        ELSE orig

\* lines 1463-1470: st.checkbox(label, value=done_flag, key=key_cb); the
\* widget of the run before is this one when its key (which holds the
\* status) is the same and, unless the key alone identifies it, its value
\* argument too
checked(status, view, boxes, i) ==
    IF /\ boxes.status = status
       /\ i <= Len(boxes.boxes)
       /\ (keyed \/ boxes.boxes[i].value = view[i][3])
    THEN boxes.boxes[i].state
    ELSE view[i][3]

\* lines 1441-1474 for the row r and the checkboxes of the run before:
\* subtasks_for_view and what the checkboxes return
view_of(r, boxes) ==
    LET view == subtasks_for_view(r)
    IN  [view |-> view,
         checks |-> [i \in 1..Len(view) |-> checked(r.status, view, boxes, i)],
         status |-> r.status]

\* lines 1458-1474: new_subtasks_after_click
after_click(v) ==
    [i \in 1..Len(v.view) |-> <<v.view[i][1], v.view[i][2], v.checks[i]>>]

\* lines 1471-1472: changed
changed(v) == \E i \in 1..Len(v.view) : v.checks[i] # v.view[i][3]

\* the checkboxes as the front end holds them after the loop of lines 1458-1474
drawn(v) ==
    [status |-> IF v.view = <<>> THEN "none" ELSE v.status,
     boxes |-> [i \in 1..Len(v.view) |->
                  [state |-> v.checks[i], value |-> v.view[i][3]]]]

\* the mutant: the add form stores progress 0 whatever the status
new_task_noprogress(status, subtasks) ==
    [status |-> status, progress |-> 0,
     description |-> serialize_subtasks(subtasks)]

\* lines 1782-1812: the row the add form inserts
new_task(status, subtasks) ==
    [status |-> status,
     progress |-> IF status = "Done" THEN 100 ELSE 0,
     description |-> serialize_subtasks(subtasks)]

\* lines 1441-1495 of a run in view mode: the checkboxes are drawn, and a
\* difference is written and ends the run
ViewWrites(v) ==
    /\ changed(v)
    /\ task' = updated(after_click(v))
    /\ checkbox' = drawn(v)
    /\ rerun' = TRUE
    /\ UNCHANGED <<other_tasks, edit_mode, count>>

\* a run that no button started (st.rerun(), or an event elsewhere)
RunView ==
    /\ toggled' = 0
    /\ \E r \in {seeded(task, other_tasks)} :
          IF edit_mode
          THEN /\ task' = r
               /\ checkbox' = NoBoxes
               /\ rerun' = FALSE
               /\ UNCHANGED <<other_tasks, edit_mode, count>>
          ELSE \E v \in {view_of(r, checkbox)} :
                 \/ ViewWrites(v)
                 \/ /\ ~changed(v)
                    /\ task' = r
                    /\ checkbox' = drawn(v)
                    /\ rerun' = FALSE
                    /\ UNCHANGED <<other_tasks, edit_mode, count>>
    /\ UNCHANGED <<sudoku_vars, round, access_vars, login_vars, madang_vars>>

\* the user clicks the i-th subtask checkbox of the row
ToggleSubtask(i) ==
    /\ ~edit_mode
    /\ task # NoTask
    /\ i \in 1..Len(checkbox.boxes)
    /\ toggled' = i
    /\ \E v \in {view_of(task, [checkbox EXCEPT
                                  !.boxes[i].state = ~checkbox.boxes[i].state])} :
          \/ ViewWrites(v)
          \/ /\ ~changed(v)
             /\ checkbox' = drawn(v)
             /\ rerun' = FALSE
             /\ UNCHANGED <<task, other_tasks, edit_mode, count>>
    /\ UNCHANGED <<sudoku_vars, round, access_vars, login_vars, madang_vars>>

\* lines 1505-1532: the Done button
PressDone ==
    /\ ~edit_mode
    /\ task # NoTask
    /\ toggled' = 0
    /\ \E v \in {view_of(task, checkbox)} :
       \/ ViewWrites(v)
       \/ /\ ~changed(v)
          /\ \E all \in {parse_subtasks(task.description)} :
                task' = [status |-> "Done", progress |-> 100,
                         description |->
                            IF all # <<>>
                            THEN serialize_subtasks(
                                    [i \in 1..Len(all) |-> <<all[i][1], all[i][2], TRUE>>])
                            ELSE task.description]
          /\ checkbox' = drawn(v)
          /\ rerun' = TRUE
          /\ UNCHANGED <<other_tasks, edit_mode, count>>
    /\ UNCHANGED <<sudoku_vars, round, access_vars, login_vars, madang_vars>>

\* lines 1534-1541: the edit button
PressEdit ==
    /\ ~edit_mode
    /\ task # NoTask
    /\ toggled' = 0
    /\ \E v \in {view_of(task, checkbox)} :
       \/ ViewWrites(v)
       \/ /\ ~changed(v)
          /\ edit_mode' = TRUE
          /\ checkbox' = drawn(v)
          /\ rerun' = TRUE
          /\ UNCHANGED <<task, other_tasks, count>>
    /\ UNCHANGED <<sudoku_vars, round, access_vars, login_vars, madang_vars>>

\* lines 1542-1570: the delete button and its confirmation; the keys of the
\* checkboxes hold the id of the row, which no later row has
DeleteTask ==
    /\ ~edit_mode
    /\ task # NoTask
    /\ toggled' = 0
    /\ \E v \in {view_of(task, checkbox)} :
       \/ ViewWrites(v)
       \/ /\ ~changed(v)
          /\ task' = NoTask
          /\ checkbox' = NoBoxes
          /\ rerun' = TRUE
          /\ UNCHANGED <<other_tasks, edit_mode, count>>
    /\ UNCHANGED <<sudoku_vars, round, access_vars, login_vars, madang_vars>>

\* what the user may type into a label input, and choose as a weight
LabelInputs == {<<>>, <<"c">>}
WeightInputs == {0, 100}

\* lines 1611-1629: the subtasks of the edit form; typed[i] is what the
\* inputs of row i hold
RECURSIVE edit_subtasks(_, _, _)
edit_subtasks(subtasks, typed, i) ==
    IF i > Len(typed) THEN <<>>
    ELSE (IF strip(typed[i][1]) # <<>>
          THEN <<<<strip(typed[i][1]), typed[i][2],
                   IF i <= Len(subtasks) THEN subtasks[i][3] ELSE FALSE>>>>
          ELSE <<>>)
         \o edit_subtasks(subtasks, typed, i + 1)

\* what the inputs of the edit form may hold: per row the stored label and
\* weight, and in one input what the user typed instead
EditInputs(subtasks) ==
    LET n == Max(Len(subtasks), 1)
        stored == [i \in 1..n |-> IF i <= Len(subtasks)
                                  THEN <<subtasks[i][1], subtasks[i][2]>>
                                  ELSE <<<<>>, 0>>]
    IN  {stored}
        \cup {[stored EXCEPT ![i][1] = l] : i \in 1..n, l \in LabelInputs}
        \cup {[stored EXCEPT ![i][2] = w] : i \in 1..n, w \in WeightInputs}

\* lines 1638-1682: the save button of edit mode
SaveEdit ==
    /\ edit_mode
    /\ task # NoTask
    /\ toggled' = 0
    /\ \E typed \in EditInputs(parse_subtasks(task.description)) :
         \E es \in {edit_subtasks(parse_subtasks(task.description), typed, 1)} :
            task' = IF es # <<>> THEN updated(es)
                    ELSE [status |-> "Todo", progress |-> 0, description |-> <<>>]
    /\ edit_mode' = FALSE
    /\ checkbox' = NoBoxes
    /\ rerun' = TRUE
    /\ UNCHANGED <<other_tasks, count>>
    /\ UNCHANGED <<sudoku_vars, round, access_vars, login_vars, madang_vars>>

\* lines 1683-1690: the cancel button of edit mode
CancelEdit ==
    /\ edit_mode
    /\ task # NoTask
    /\ toggled' = 0
    /\ edit_mode' = FALSE
    /\ checkbox' = NoBoxes
    /\ rerun' = TRUE
    /\ UNCHANGED <<task, other_tasks, count>>
    /\ UNCHANGED <<sudoku_vars, round, access_vars, login_vars, madang_vars>>

\* lines 1762-1770: the button that adds a subtask row to the add form
AddRow ==
    /\ count < MaxSub
    /\ count' = count + 1
    /\ toggled' = 0
    /\ \E r \in {seeded(task, other_tasks)} :
          IF edit_mode
          THEN /\ task' = r
               /\ checkbox' = NoBoxes
               /\ rerun' = FALSE
               /\ UNCHANGED <<other_tasks, edit_mode>>
          ELSE \E v \in {view_of(r, checkbox)} :
               /\ ~changed(v)
               /\ task' = r
               /\ checkbox' = drawn(v)
               /\ rerun' = FALSE
               /\ UNCHANGED <<other_tasks, edit_mode>>
    /\ UNCHANGED <<sudoku_vars, round, access_vars, login_vars, madang_vars>>

\* lines 1743-1760, 1782-1785: the subtasks of the add form
RECURSIVE subtasks_new(_, _, _)
subtasks_new(status, typed, i) ==
    IF i > Len(typed) THEN <<>>
    ELSE (IF strip(typed[i][1]) # <<>>
          THEN <<<<strip(typed[i][1]), typed[i][2], status = "Done">>>>
          ELSE <<>>)
         \o subtasks_new(status, typed, i + 1)

\* lines 1772-1813: the save button of the add form, with a title; the row
\* the model follows is the new one
SaveNew ==
    /\ task = NoTask
    /\ other_tasks
    /\ toggled' = 0
    /\ \E status \in {"Todo", "In Progress", "Done"},
          typed \in [1..count -> LabelInputs \X WeightInputs] :
          task' = new_task(status, subtasks_new(status, typed, 1))
    /\ checkbox' = NoBoxes
    /\ rerun' = TRUE
    /\ UNCHANGED <<other_tasks, edit_mode, count>>
    /\ UNCHANGED <<sudoku_vars, round, access_vars, login_vars, madang_vars>>

\* another row is inserted (the add form), or the last other row is deleted
OtherTask ==
    /\ ~edit_mode
    /\ toggled' = 0
    /\ \E r \in {seeded(task, other_tasks)} :
       \E v \in {view_of(r, checkbox)} :
          /\ ~changed(v)
          /\ task' = r
          /\ checkbox' = drawn(v)
    /\ other_tasks' = ~other_tasks
    /\ rerun' = TRUE
    /\ UNCHANGED <<edit_mode, count>>
    /\ UNCHANGED <<sudoku_vars, round, access_vars, login_vars, madang_vars>>

\* the state after the first run: the sample row, drawn in view mode
InitTask ==
    /\ task = SeedTask
    /\ other_tasks = FALSE
    /\ checkbox = drawn(view_of(SeedTask, NoBoxes))
    /\ edit_mode = FALSE
    /\ rerun = FALSE
    /\ count = 1
    /\ toggled = 0
    /\ RoundIdle
    /\ AccessIdle
    /\ LoginIdle
    /\ MadangIdle
    /\ SudokuIdle
    /\ keyed \in BOOLEAN

NextTask ==
    \/ RunView
    \/ \E i \in 1..MaxSub : ToggleSubtask(i)
    \/ PressDone
    \/ PressEdit
    \/ DeleteTask
    \/ SaveEdit
    \/ CancelEdit
    \/ AddRow
    \/ SaveNew
    \/ OtherTask

SpecTask == InitTask /\ [][NextTask]_vars

\* C24: in every state of a task, status is "Done" if and only if progress
\* is 100, and status "Todo" implies progress 0.
C24_StatusProgress ==
    task # NoTask =>
        /\ (task.status = "Done") <=> (task.progress = 100)
        /\ (task.status = "Todo") => (task.progress = 0)

\* a task that a checkbox click has made Done while a subtask of it is
\* stored as not done (the done weights alone reach 100)
C24_Witness ==
    /\ task.status = "Done"
    /\ task.progress = 100
    /\ toggled # 0
    /\ \E j \in 1..Len(parse_subtasks(task.description)) :
          ~parse_subtasks(task.description)[j][3]

\* C28: a click on one subtask checkbox in view mode changes the stored
\* done flag of that subtask only: in the description update_task writes,
\* every other subtask has the done flag of the stored description.
C28_ToggleOnlyOne ==
    [][(toggled' # 0 /\ rerun') =>
          /\ Len(parse_subtasks(task'.description)) = Len(parse_subtasks(task.description))
          /\ \A j \in 1..Len(parse_subtasks(task.description)) :
                j # toggled' =>
                   parse_subtasks(task'.description)[j][3]
                      = parse_subtasks(task.description)[j][3]]_vars

(***************************************************************************)
(* src/coop.py, the table user_projects: seed_if_empty at the top of every *)
(* run of every session, and the save button of the user detail in the     *)
(* user-management view.                                                   *)
(***************************************************************************)
AllLinks == Users \X Projects

\* lines 171-186: every user is linked to every project, ON CONFLICT DO NOTHING
seed_links(links) == links \cup AllLinks

\* lines 456-469
set_user_projects(links, user_id, project_ids) ==
    {x \in links : x[1] # user_id} \cup {<<user_id, p>> : p \in project_ids}

\* lines 441-453: the projects linked to a user
projects_of(links, user_id) == {p \in Projects : <<user_id, p>> \in links}

\* a run of a session in which no administrator saves (lines 741-742)
RunSeed ==
    /\ user_projects' = seed_links(user_projects)
    /\ UNCHANGED granted
    /\ UNCHANGED <<sudoku_vars, task_vars, round, login_vars, madang_vars>>

\* lines 1262-1281: a run in which an administrator saves the projects of a
\* user; the run has executed seed_if_empty before and ends with st.rerun()
SaveUser(user_id, project_ids) ==
    /\ user_projects' =
          set_user_projects(seed_links(user_projects), user_id, project_ids)
    /\ granted' = [granted EXCEPT ![user_id] =
                      [saved |-> TRUE, projects |-> project_ids]]
    /\ UNCHANGED <<sudoku_vars, task_vars, round, login_vars, madang_vars>>

\* the table after the first run of the first session
InitAccess ==
    /\ user_projects = seed_links({})
    /\ granted = [u \in Users |-> [saved |-> FALSE, projects |-> {}]]
    /\ TaskIdle
    /\ RoundIdle
    /\ LoginIdle
    /\ MadangIdle
    /\ SudokuIdle
    /\ keyed = TRUE

NextAccess ==
    \/ RunSeed
    \/ \E u \in Users, P \in SUBSET Projects : SaveUser(u, P)

SpecAccess == InitAccess /\ [][NextAccess]_vars

\* C25: after set_user_projects(user, P) the projects linked to the user are
\* exactly P, and they still are after any number of later runs in which no
\* administrator changes them.
C25_AccessPersists ==
    \A u \in Users :
        granted[u].saved => projects_of(user_projects, u) = granted[u].projects

(***************************************************************************)
(* src/coop.py, login and role gating (lines 744-850 and the chain of      *)
(* views at lines 860, 1038, 1160, 1321), per browser session.  The tabs   *)
(* are written "dashboard", "part:plan", "part:dev", "part:art" (the parts *)
(* of seed_if_empty), "projects" (project management) and "users" (user    *)
(* management).                                                            *)
(***************************************************************************)
AdminTabs == {"projects", "users"}
PartTabs == {"part:plan", "part:dev", "part:art"}

\* what may be typed into the login form
Usernames == {"admin", "user", "guest"}
Passwords == {"1234", "0000"}

\* lines 766-775: the role of a login, "None" when it is refused
login_role(username, password) ==
    IF username = "admin" /\ password = "1234" THEN "admin"
    ELSE IF username = "user" /\ password = "1234" THEN "user"
    ELSE "None"

\* lines 801-805: the tab guard
tab_guard(r, tab) == IF r = "user" /\ tab \in AdminTabs THEN "dashboard" ELSE tab

\* lines 814-840: the tab buttons the sidebar shows
sidebar_tabs(r) ==
    {"dashboard"} \cup PartTabs \cup (IF r = "admin" THEN AdminTabs ELSE {})

\* lines 860, 1038, 1160, 1321: the view the run renders
view_for(r, tab) ==
    IF tab = "dashboard" THEN "dashboard"
    ELSE IF tab = "projects" /\ r = "admin" THEN "project management"
    ELSE IF tab = "users" /\ r = "admin" THEN "user management"
    ELSE "part"

\* the mutant: logout leaves the role
logout_role_kept(r) == r

\* lines 843-845: the role after logout
logout_role(r) == "None"

\* lines 757-785: the login form is submitted
Login(s, username, password) ==
    /\ ~logged_in[s]
    /\ \E r \in {login_role(username, password)} :
          IF r # "None"
          THEN /\ logged_in' = [logged_in EXCEPT ![s] = TRUE]
               /\ role' = [role EXCEPT ![s] = r]
               /\ current_tab' = [current_tab EXCEPT ![s] = "dashboard"]
          ELSE UNCHANGED <<logged_in, role, current_tab>>
    /\ page' = [page EXCEPT ![s] = "login"]
    /\ UNCHANGED <<sudoku_vars, task_vars, round, access_vars, madang_vars>>

\* a run of a session without a button press, or with one of the tab
\* buttons of the sidebar pressed (tab is the button, "none" for no button)
RunPage(s, tab) ==
    /\ IF ~logged_in[s]
       THEN /\ tab = "none"
            /\ page' = [page EXCEPT ![s] = "login"]
            /\ UNCHANGED current_tab
       ELSE /\ tab \in {"none"} \cup sidebar_tabs(role[s])
            /\ current_tab' = [current_tab EXCEPT ![s] =
                                 IF tab # "none" THEN tab
                                 ELSE tab_guard(role[s], current_tab[s])]
            /\ page' = [page EXCEPT ![s] = view_for(role[s], current_tab'[s])]
    /\ UNCHANGED <<logged_in, role>>
    /\ UNCHANGED <<sudoku_vars, task_vars, round, access_vars, madang_vars>>

\* lines 842-847: the logout button; the run ends before a view is drawn
Logout(s) ==
    /\ logged_in[s]
    /\ logged_in' = [logged_in EXCEPT ![s] = FALSE]
    /\ role' = [role EXCEPT ![s] = logout_role(role[s])]
    /\ current_tab' = [current_tab EXCEPT ![s] = "dashboard"]
    /\ page' = [page EXCEPT ![s] = "none"]
    /\ UNCHANGED <<sudoku_vars, task_vars, round, access_vars, madang_vars>>

InitLogin ==
    /\ LoginIdle
    /\ TaskIdle
    /\ RoundIdle
    /\ AccessIdle
    /\ MadangIdle
    /\ SudokuIdle
    /\ keyed = TRUE

NextLogin ==
    \E s \in Sessions :
        \/ \E u \in Usernames, p \in Passwords : Login(s, u, p)
        \/ \E tab \in {"none", "dashboard"} \cup PartTabs \cup AdminTabs :
              RunPage(s, tab)
        \/ Logout(s)

SpecLogin == InitLogin /\ [][NextLogin]_vars

\* C26: no run renders the project-management or user-management view unless
\* the session is logged in with role "admin"; a session with role "user"
\* on an admin tab is sent back to the dashboard; a session that is not
\* logged in renders only the login form; logged_in is true exactly when
\* role is "admin" or "user".
C26_RoleGating ==
    \A s \in Sessions :
        /\ page[s] \in {"project management", "user management"} =>
              (logged_in[s] /\ role[s] = "admin")
        /\ \A tab \in AdminTabs :
              /\ tab_guard("user", tab) = "dashboard"
              /\ view_for("user", tab) \notin {"project management", "user management"}
        /\ (role[s] = "user" /\ page[s] \notin {"none", "login"}) =>
              current_tab[s] \notin AdminTabs
        /\ ~logged_in[s] => page[s] \in {"none", "login"}
        /\ logged_in[s] <=> role[s] \in {"admin", "user"}

\* one session shows the user-management view as admin while another, logged
\* in as user, shows a part view
C26_Witness ==
    \E s, t \in Sessions :
        /\ page[s] = "user management" /\ role[s] = "admin" /\ logged_in[s]
        /\ page[t] = "part" /\ role[t] = "user" /\ logged_in[t]

(***************************************************************************)
(* src/app.py, the Madang DB app.  get_conn is cached with                 *)
(* st.cache_resource: one connection for all sessions of the server, made  *)
(* by the run that finds the cache empty.  The sessions run in threads of  *)
(* their own, so the statements of two runs on the shared connection may   *)
(* interleave.  "main" is madang.duckdb, "temp" the copy of line 52.       *)
(***************************************************************************)
\* how many rows Orders may hold when an order is added
MaxOrders == 3

\* the orderids of Orders_madang.csv
CsvOrders == <<1, 2>>

\* what duckdb.connect may do at lines 36-61, depending on the locks other
\* processes hold on the file: "rw" the first connect succeeds, "ro" the
\* read-only one, "copy" the one on the copy, "none" none (st.stop())
ConnectOutcomes == {"rw", "ro", "copy", "none"}

\* the database file a connection is on
db_of(c) == IF c = "copy" THEN "temp" ELSE "main"

\* line 252: COALESCE(MAX(orderid), 0) + 1
RECURSIVE max_orderid(_)
max_orderid(ids) ==
    IF ids = <<>> THEN 0 ELSE Max(Head(ids), max_orderid(Tail(ids)))

next_id(ids) == max_orderid(ids) + 1

\* lines 32-61: get_conn in a run of session s; out is what duckdb.connect
\* does if the cache is empty.  The flag _readonly of the session is
\* assigned only when the body of get_conn is executed.
get_conn(s, out) ==
    /\ conn' = [conn EXCEPT ![s] = IF cache # "none" THEN cache ELSE out]
    /\ cache' = IF cache # "none" THEN cache ELSE out
    /\ readonly' = IF cache # "none" \/ out = "none" THEN readonly
                   ELSE [readonly EXCEPT ![s] = (out = "ro")]

\* line 52: shutil.copyfile when the copy is opened
copied(out) ==
    IF cache = "none" /\ out = "copy"
    THEN [orders EXCEPT !["temp"] = orders["main"]]
    ELSE orders

\* a run of session s that no button started: the sidebar (line 178 reads
\* the flag before get_conn is called), get_conn (line 192), the add-order
\* button (line 245 reads the flag again)
Run(s, out) ==
    /\ mpc[s] = "idle"
    /\ get_conn(s, out)
    /\ orders' = copied(out)
    /\ controls' = [controls EXCEPT ![s] =
                       [reinit |-> ~readonly[s],
                        add |-> conn'[s] # "none" /\ ~readonly'[s]]]
    /\ shown' = [shown EXCEPT ![s] = 0]
    /\ UNCHANGED <<mpc, nid, inserted>>
    /\ UNCHANGED <<sudoku_vars, coop_vars>>

\* lines 173-175: the reconnect button clears the cache and ends the run
Reconnect(s) ==
    /\ mpc[s] = "idle"
    /\ cache' = "none"
    /\ conn' = [conn EXCEPT ![s] = "none"]
    /\ controls' = [controls EXCEPT ![s] = [reinit |-> FALSE, add |-> FALSE]]
    /\ shown' = [shown EXCEPT ![s] = 0]
    /\ UNCHANGED <<readonly, orders, mpc, nid, inserted>>
    /\ UNCHANGED <<sudoku_vars, coop_vars>>

\* lines 181-183: the re-initialise button, drawn enabled, is pressed;
\* conn.execute raises on a read-only connection and the run ends
Reinit(s, out) ==
    /\ mpc[s] = "idle"
    /\ controls[s].reinit
    /\ get_conn(s, out)
    /\ orders' = IF conn'[s] \in {"rw", "copy"}
                 THEN [copied(out) EXCEPT ![db_of(conn'[s])] = CsvOrders]
                 ELSE copied(out)
    /\ controls' = [controls EXCEPT ![s] = [reinit |-> ~readonly[s], add |-> FALSE]]
    /\ shown' = [shown EXCEPT ![s] = 0]
    /\ UNCHANGED <<mpc, nid, inserted>>
    /\ UNCHANGED <<sudoku_vars, coop_vars>>

\* lines 245-252: the add-order button, drawn enabled, is pressed; the run
\* gets the connection and reads the next orderid
AddRead(s, out) ==
    /\ mpc[s] = "idle"
    /\ controls[s].add
    /\ get_conn(s, out)
    /\ conn'[s] # "none"
    /\ ~readonly'[s]
    /\ orders' = copied(out)
    /\ Len(orders'[db_of(conn'[s])]) < MaxOrders
    /\ nid' = [nid EXCEPT ![s] = next_id(orders'[db_of(conn'[s])])]
    /\ mpc' = [mpc EXCEPT ![s] = "insert"]
    /\ controls' = [controls EXCEPT ![s] = [reinit |-> ~readonly[s], add |-> TRUE]]
    /\ shown' = [shown EXCEPT ![s] = 0]
    /\ UNCHANGED inserted
    /\ UNCHANGED <<sudoku_vars, coop_vars>>

\* line 260: st.success follows run_exec, which has caught what the INSERT
\* raised (lines 146-153)
added_message(s, ok) == nid[s]

\* lines 255-260: the INSERT through run_exec, and the message
AddInsert(s) ==
    /\ mpc[s] = "insert"
    /\ \E ok \in {conn[s] # "ro"} :
          /\ orders' = IF ok
                       THEN [orders EXCEPT ![db_of(conn[s])] = Append(@, nid[s])]
                       ELSE orders
          /\ inserted' = [inserted EXCEPT ![s] = ok]
          /\ shown' = [shown EXCEPT ![s] = added_message(s, ok)]
    /\ mpc' = [mpc EXCEPT ![s] = "idle"]
    /\ UNCHANGED <<cache, readonly, conn, nid, controls>>
    /\ UNCHANGED <<sudoku_vars, coop_vars>>

InitMadang ==
    /\ cache = "none"
    /\ readonly = [s \in Sessions |-> FALSE]
    /\ conn = [s \in Sessions |-> "none"]
    /\ orders = [db \in {"main", "temp"} |-> IF db = "main" THEN CsvOrders ELSE <<>>]
    /\ mpc = [s \in Sessions |-> "idle"]
    /\ nid = [s \in Sessions |-> 0]
    /\ shown = [s \in Sessions |-> 0]
    /\ controls = [s \in Sessions |-> [add |-> FALSE, reinit |-> FALSE]]
    /\ inserted = [s \in Sessions |-> FALSE]
    /\ CoopIdle
    /\ SudokuIdle
    /\ keyed = TRUE

NextMadang ==
    \E s \in Sessions :
        \/ \E out \in ConnectOutcomes : Run(s, out)
        \/ Reconnect(s)
        \/ \E out \in ConnectOutcomes : Reinit(s, out)
        \/ \E out \in ConnectOutcomes : AddRead(s, out)
        \/ AddInsert(s)

SpecMadang == InitMadang /\ [][NextMadang]_vars

\* C29: whenever the cached connection in use was opened read-only, the
\* write controls (add order, force re-initialise) are disabled in every
\* session that uses it.
C29_ReadOnlyDisables ==
    \A s \in Sessions :
        (cache = "ro" /\ conn[s] = "ro") =>
            (~controls[s].add /\ ~controls[s].reinit)

Increasing(ids) == \A i, j \in 1..Len(ids) : i < j => ids[i] < ids[j]

\* C30: the message that an order was added is shown only if its INSERT
\* succeeded, and every order inserted has an orderid greater than every
\* orderid in Orders at the time of the insert, also with two sessions on
\* the shared connection.
C30_OrderAdded ==
    /\ \A s \in Sessions : shown[s] # 0 => inserted[s]
    /\ \A db \in {"main", "temp"} : Increasing(orders[db])

====
